---------------------------- MODULE Spec2Model ----------------------------
(***************************************************************************)
(* A model of nsrlex.py, the NSRL hash-set extractor.                      *)
(*                                                                         *)
(* A run is one execution of main(): option processing, the checks of the  *)
(* required files, index_hacker_tool_entries, filter_entries,              *)
(* write_output and show_summary.  Python strings are sequences of         *)
(* one-character strings, so that str.split(',') and str.find() are        *)
(* computed, not assumed.  The command line and the contents of the input  *)
(* files are supplied by the environment as the program consumes them: one *)
(* option per iteration of the option loop, one line per iteration of a    *)
(* file loop.                                                              *)
(***************************************************************************)
EXTENDS Naturals, Integers, Sequences, FiniteSets, TLC

VARIABLES
    pc,                     \* position in main()
    nOpts,                  \* options of aOpts processed so far
    sNSRLFile,              \* main's locals
    sProdFile,
    sKnownGoodOutputFile,
    sKnownBadOutputFile,
    bShowSummary,
    aFiles,                 \* the list a file loop iterates (aNSRLProdFiles, aNSRLFiles)
    iFile,                  \* 1-based position of sFile in aFiles
    oFile,                  \* the file object of the loop: "closed", "open", "last"
    aHackerTools,           \* list of product codes
    aEntries,               \* [good |-> list of lines, bad |-> list of lines]
    iEntry,                 \* entries of the current output list already written
    disk,                   \* output path -> content of the file
    wlog,                   \* opens, failed opens and closes of output files
    out,                    \* what was written to stderr and stdout
    shown,                  \* the figures show_summary printed
    exitCode,               \* NoExit while running, then the process's status
    cause,                  \* what ended the run
    prodSeen,               \* history: catalog lines read
    nProdClosed,            \* history: catalog files read to their end and closed
    rowsRead,               \* history: << position of the file in -n, line >> of
                            \* the hash-set lines read, in the order read
    nsrlOpens               \* history: open() calls of filter_entries

vars == << pc, nOpts, sNSRLFile, sProdFile, sKnownGoodOutputFile,
           sKnownBadOutputFile, bShowSummary, aFiles, iFile, oFile,
           aHackerTools, aEntries, iEntry, disk, wlog, out, shown, exitCode,
           cause, prodSeen, nProdClosed, rowsRead, nsrlOpens >>

---------------------------------------------------------------------------
(* Bounds of the model *)

\* options the option loop processes in one run
MaxOpts == 5
\* catalog lines read in one run
MaxProdRows == 2
\* hash-set lines read in one run
MaxRows == 2

---------------------------------------------------------------------------
(* Python values *)

\* None is a value no string equals; NoExit is the status of a running process
None == << "None" >>
NoExit == 0 - 1

\* Python truth value of None or a string
Truthy(v) == v # None /\ v # << >>

COMMA == ","
LF == "\n"
CR == "\r"

RECURSIVE SplitFrom(_, _, _)
\* the fields of s from position iStart on, scanning from position i
SplitFrom(s, i, iStart) ==
    IF i > Len(s) THEN << SubSeq(s, iStart, Len(s)) >>
    ELSE IF s[i] = COMMA
         THEN << SubSeq(s, iStart, i - 1) >> \o SplitFrom(s, i + 1, i + 1)
         ELSE SplitFrom(s, i + 1, iStart)

\* str.split(','): the fields between the commas; no comma gives one field
Split(s) == SplitFrom(s, 1, 1)

\* str.find(sub): the lowest 0-based index where sub occurs, -1 if none
Find(s, sub) ==
    LET hits == { i \in 1..(Len(s) + 1) :
                      i + Len(sub) - 1 <= Len(s)
                      /\ SubSeq(s, i, i + Len(sub) - 1) = sub }
    IN  IF hits = {} THEN 0 - 1
        ELSE (CHOOSE i \in hits : \A j \in hits : i <= j) - 1

\* list.index(x): the lowest 0-based index of x, -1 standing for ValueError
ListIndex(aHaystack, sNeedle) ==
    LET hits == { i \in 1..Len(aHaystack) : aHaystack[i] = sNeedle }
    IN  IF hits = {} THEN 0 - 1
        ELSE (CHOOSE i \in hits : \A j \in hits : i <= j) - 1

in_array(sNeedle, aHaystack) ==
    LET i == ListIndex(aHaystack, sNeedle)
    IN  IF i = 0 - 1 THEN FALSE ELSE TRUE

\* a[i] with Python's 0-based index; HasIndex is false where a[i] raises IndexError
HasIndex(a, i) == i + 1 <= Len(a)
Item(a, i) == a[i + 1]

---------------------------------------------------------------------------
(* The environment: command lines and file contents *)

MARKER == << "H", "a", "c", "k", "e", "r", " ", "T", "o", "o", "l" >>

\* fields 1 to 4, and fields 1 to 5, of a row, with the commas around them
Four(c) == << COMMA, c, COMMA, c, COMMA, c, COMMA, c, COMMA >>
Five(c) == Four(c) \o << c, COMMA >>

\* 1,a,a,a,a,a,Hacker Tool
ProdHacker1 == << "1" >> \o Five("a") \o MARKER \o << LF >>
\* 1,b,b,b,b,b,Hacker Tool/U   (a second row asserting product 1)
ProdHacker1b == << "1" >> \o Five("b") \o MARKER \o << "/", "U", LF >>
\* 2,a,a,a,a,a,xHacker Tool
ProdHacker2 == << "2" >> \o Five("a") \o << "x" >> \o MARKER \o << LF >>
\* 2,b,b,b,b,b,hacker Tool     (the marker is case-sensitive)
ProdOther2 == << "2" >> \o Five("b")
                  \o << "h", "a", "c", "k", "e", "r", " ", "T", "o", "o", "l", LF >>
\* 3,a                          (fewer than 7 fields)
ProdShort == << "3", COMMA, "a", LF >>

ProdLines == { ProdHacker1, ProdHacker1b, ProdHacker2, ProdOther2, ProdShort }

\* h,a,a,a,a,1,o
RowP1 == << "h" >> \o Four("a") \o << "1", COMMA, "o", LF >>
\* k,b,b,b,b,2 with a CR LF terminator: field 5 is the last field and holds
\* the terminator
RowP2Last == << "k" >> \o Four("b") \o << "2", CR, LF >>
\* n,b,b,b,b,2,o without a terminator: the last line of its file
RowP2NoEol == << "n" >> \o Four("b") \o << "2", COMMA, "o" >>
\* q,a                          (fewer than 6 fields)
RowShort == << "q", COMMA, "a", LF >>

NSRLLines == { RowP1, RowP2Last, RowP2NoEol, RowShort }

\* a line that does not end in "\n" is the last line of its file
Terminated(sLine) == Len(sLine) > 0 /\ sLine[Len(sLine)] = LF

\* the option/value pairs getopt may return
OptPool ==
    { << "-h", << >> >>,
      << "-s", << >> >>,
      << "--show-summary", << >> >>,
      << "-n", << "n", COMMA, "m" >> >>,
      << "--nsrl-file", << >> >>,
      << "-p", << "p", COMMA, "q" >> >>,
      << "--prod-file", << "p", COMMA, "q" >> >>,
      << "-g", << "g" >> >>,
      << "--output-good-file", << "g" >> >>,
      << "-b", << "g" >> >>,
      << "--output-bad-file", << "b" >> >> }

OutPaths == { << "g" >>, << "b" >> }

\* what an output path holds before the run
Stale == << "o", "l", "d", LF >>

---------------------------------------------------------------------------
(* Termination *)

Usage == << "stdout", "usage" >>

\* raise_error exiting with the status of an uncaught exception
raise_error_status1(sErrorString) ==
    /\ out' = out \o << << "stderr", sErrorString >>, Usage >>
    /\ exitCode' = 1
    /\ pc' = "exit"

\* sys.exit(2) after the message on stderr and usage() on stdout
raise_error(sErrorString) ==
    /\ out' = out \o << << "stderr", sErrorString >>, Usage >>
    /\ exitCode' = 2
    /\ pc' = "exit"

\* an exception nothing catches: the interpreter prints a traceback, status 1
Uncaught(sException) ==
    /\ out' = Append(out, << "stderr", "Traceback", sException >>)
    /\ exitCode' = 1
    /\ pc' = "exit"

---------------------------------------------------------------------------
(* main: the state after the variable initialization *)

Init ==
    /\ pc = "getopt"
    /\ nOpts = 0
    /\ sNSRLFile = None
    /\ sProdFile = None
    /\ sKnownGoodOutputFile = None
    /\ sKnownBadOutputFile = None
    /\ bShowSummary = FALSE
    /\ aFiles = << >>
    /\ iFile = 0
    /\ oFile = "closed"
    /\ aHackerTools = << >>
    /\ aEntries = [good |-> << >>, bad |-> << >>]
    /\ iEntry = 0
    /\ disk = [p \in OutPaths |-> Stale]
    /\ wlog = << >>
    /\ out = << >>
    /\ shown = << >>
    /\ exitCode = NoExit
    /\ cause = "none"
    /\ prodSeen = {}
    /\ nProdClosed = 0
    /\ rowsRead = << >>
    /\ nsrlOpens = 0

locals == << sNSRLFile, sProdFile, sKnownGoodOutputFile,
             sKnownBadOutputFile, bShowSummary >>
loopvars == << aFiles, iFile, oFile >>
data == << aHackerTools, aEntries, iEntry >>
files == << disk, wlog, shown >>
history == << prodSeen, nProdClosed, rowsRead, nsrlOpens >>

\* getopt.getopt raises GetoptError: an unknown flag or a missing argument
GetoptError ==
    /\ pc = "getopt"
    /\ cause' = "bad flag"
    /\ raise_error("getopt")
    /\ UNCHANGED << nOpts, locals, loopvars, data, files, history >>

GetoptOK ==
    /\ pc = "getopt"
    /\ pc' = "options"
    /\ UNCHANGED << nOpts, locals, loopvars, data, files, history, out,
                    exitCode, cause >>

\* one iteration of "for sOption, sValue in aOpts"
OptHelp ==
    /\ pc = "options" /\ nOpts < MaxOpts
    /\ \E o \in OptPool :
          /\ o[1] \in { "-h", "--help" }
          /\ out' = Append(out, Usage)
          /\ exitCode' = 0
          /\ pc' = "exit"
          /\ cause' = "help"
    /\ nOpts' = nOpts + 1
    /\ UNCHANGED << locals, loopvars, data, files, history >>

OptNSRL ==
    /\ pc = "options" /\ nOpts < MaxOpts
    /\ \E o \in OptPool :
          /\ o[1] \in { "-n", "--nsrl-file" }
          /\ sNSRLFile' = o[2]
    /\ nOpts' = nOpts + 1
    /\ UNCHANGED << pc, sProdFile, sKnownGoodOutputFile, sKnownBadOutputFile,
                    bShowSummary, loopvars, data, files, history, out,
                    exitCode, cause >>

OptProd ==
    /\ pc = "options" /\ nOpts < MaxOpts
    /\ \E o \in OptPool :
          /\ o[1] \in { "-p", "--prod-file" }
          /\ sProdFile' = o[2]
    /\ nOpts' = nOpts + 1
    /\ UNCHANGED << pc, sNSRLFile, sKnownGoodOutputFile, sKnownBadOutputFile,
                    bShowSummary, loopvars, data, files, history, out,
                    exitCode, cause >>

OptGood ==
    /\ pc = "options" /\ nOpts < MaxOpts
    /\ \E o \in OptPool :
          /\ o[1] \in { "-g", "--output-good-file" }
          /\ sKnownGoodOutputFile' = o[2]
    /\ nOpts' = nOpts + 1
    /\ UNCHANGED << pc, sNSRLFile, sProdFile, sKnownBadOutputFile,
                    bShowSummary, loopvars, data, files, history, out,
                    exitCode, cause >>

OptBad ==
    /\ pc = "options" /\ nOpts < MaxOpts
    /\ \E o \in OptPool :
          /\ o[1] \in { "-b", "--output-bad-file" }
          /\ sKnownBadOutputFile' = o[2]
    /\ nOpts' = nOpts + 1
    /\ UNCHANGED << pc, sNSRLFile, sProdFile, sKnownGoodOutputFile,
                    bShowSummary, loopvars, data, files, history, out,
                    exitCode, cause >>

OptSummary ==
    /\ pc = "options" /\ nOpts < MaxOpts
    /\ \E o \in OptPool :
          /\ o[1] \in { "-s", "--show-summary" }
          /\ bShowSummary' = TRUE
    /\ nOpts' = nOpts + 1
    /\ UNCHANGED << pc, sNSRLFile, sProdFile, sKnownGoodOutputFile,
                    sKnownBadOutputFile, loopvars, data, files, history, out,
                    exitCode, cause >>

\* aOpts is exhausted: the loop and its iteration count are over
OptsDone ==
    /\ pc = "options"
    /\ pc' = "check_nsrl"
    /\ nOpts' = 0
    /\ UNCHANGED << locals, loopvars, data, files, history, out,
                    exitCode, cause >>

\* check_file, with isfile the answers of os.path.isfile
check_file(sFileString, isfile) ==
    IF ~Truthy(sFileString) THEN FALSE
    ELSE LET aPaths == Split(sFileString)
         IN  \A i \in 1..Len(aPaths) : isfile[aPaths[i]]

PathsOf(sFileString) ==
    IF Truthy(sFileString)
    THEN { Split(sFileString)[i] : i \in 1..Len(Split(sFileString)) }
    ELSE {}

CheckNSRLFile ==
    /\ pc = "check_nsrl"
    /\ \E isfile \in [PathsOf(sNSRLFile) -> BOOLEAN] :
          IF ~check_file(sNSRLFile, isfile)
          THEN /\ cause' = (IF Truthy(sNSRLFile) THEN "input not found"
                                                 ELSE "missing -n")
               /\ raise_error("nsrl-file required")
          ELSE /\ pc' = "check_prod"
               /\ UNCHANGED << out, exitCode, cause >>
    /\ UNCHANGED << nOpts, locals, loopvars, data, files, history >>

CheckProdFile ==
    /\ pc = "check_prod"
    /\ \E isfile \in [PathsOf(sProdFile) -> BOOLEAN] :
          IF ~check_file(sProdFile, isfile)
          THEN /\ cause' = (IF Truthy(sProdFile) THEN "input not found"
                                                 ELSE "missing -p")
               /\ raise_error("prod-file required")
          ELSE /\ pc' = "check_out"
               /\ UNCHANGED << out, exitCode, cause >>
    /\ UNCHANGED << nOpts, locals, loopvars, data, files, history >>

\* "You must define at least one output file", else enter index_hacker_tool_entries
CheckOutputs ==
    /\ pc = "check_out"
    /\ IF ~Truthy(sKnownGoodOutputFile) /\ ~Truthy(sKnownBadOutputFile)
       THEN /\ cause' = "no output"
            /\ raise_error("no output file")
            /\ UNCHANGED << loopvars, aHackerTools >>
       ELSE /\ pc' = "index"
            /\ aFiles' = Split(sProdFile)
            /\ iFile' = 1
            /\ oFile' = "closed"
            /\ aHackerTools' = << >>
            /\ UNCHANGED << out, exitCode, cause >>
    /\ UNCHANGED << nOpts, locals, aEntries, iEntry, files, history >>

---------------------------------------------------------------------------
(* index_hacker_tool_entries *)

\* IndexEntry without the in_array test
IndexEntry_nodedup(aTools, aNSRLProdEntry) ==
    IF Find(Item(aNSRLProdEntry, 6), MARKER) # 0 - 1
    THEN Append(aTools, Item(aNSRLProdEntry, 0))
    ELSE aTools

\* the body of "for sNSRLProdEntry in oNSRLProdFile", for a row of 7 fields or more
IndexEntry(aTools, aNSRLProdEntry) ==
    IF Find(Item(aNSRLProdEntry, 6), MARKER) # 0 - 1
       /\ ~in_array(Item(aNSRLProdEntry, 0), aTools)
    THEN Append(aTools, Item(aNSRLProdEntry, 0))
    ELSE aTools

\* LoopDone with the return inside the loop: over after the first file
LoopDone_first(i, aList) == i > 1

\* "for sFile in ..." has no file left
LoopDone(i, aList) == i > Len(aList)

IndexOpen ==
    /\ pc = "index" /\ ~LoopDone(iFile, aFiles) /\ oFile = "closed"
    /\ oFile' = "open"
    /\ UNCHANGED << pc, nOpts, locals, aFiles, iFile, data, files, history,
                    out, exitCode, cause >>

\* open() raises IOError
IndexOpenFail ==
    /\ pc = "index" /\ ~LoopDone(iFile, aFiles) /\ oFile = "closed"
    /\ cause' = "catalog unreadable"
    /\ raise_error("Could not read NSRL Prod file")
    /\ UNCHANGED << nOpts, locals, loopvars, data, files, history >>

IndexReadLine ==
    /\ pc = "index" /\ oFile = "open"
    /\ \E sNSRLProdEntry \in ProdLines :
          LET aNSRLProdEntry == Split(sNSRLProdEntry) IN
          /\ Cardinality(prodSeen \cup { sNSRLProdEntry }) <= MaxProdRows
          /\ prodSeen' = prodSeen \cup { sNSRLProdEntry }
          /\ IF ~HasIndex(aNSRLProdEntry, 6)
             THEN /\ cause' = "malformed row"
                  /\ Uncaught("IndexError")
                  /\ UNCHANGED << oFile, aHackerTools >>
             ELSE /\ aHackerTools' = IndexEntry(aHackerTools, aNSRLProdEntry)
                  /\ oFile' = IF Terminated(sNSRLProdEntry) THEN "open" ELSE "last"
                  /\ UNCHANGED << pc, out, exitCode, cause >>
    /\ UNCHANGED << nOpts, locals, aFiles, iFile, aEntries, iEntry, files,
                    nProdClosed, rowsRead, nsrlOpens >>

\* reading the next line raises IOError
IndexReadError ==
    /\ pc = "index" /\ oFile = "open"
    /\ cause' = "catalog unreadable"
    /\ raise_error("Could not read NSRL Prod file")
    /\ UNCHANGED << nOpts, locals, loopvars, data, files, history >>

\* end of file: close, next sFile
IndexClose ==
    /\ pc = "index" /\ oFile \in { "open", "last" }
    /\ oFile' = "closed"
    /\ iFile' = iFile + 1
    /\ nProdClosed' = nProdClosed + 1
    /\ UNCHANGED << pc, nOpts, locals, aFiles, data, files, prodSeen, rowsRead,
                    nsrlOpens, out, exitCode, cause >>

\* "return aHackerTools", then main enters filter_entries
IndexReturn ==
    /\ pc = "index" /\ LoopDone(iFile, aFiles) /\ oFile = "closed"
    /\ pc' = "filter"
    /\ aFiles' = Split(sNSRLFile)
    /\ iFile' = 1
    /\ aEntries' = [good |-> << >>, bad |-> << >>]
    /\ UNCHANGED << nOpts, locals, oFile, aHackerTools, iEntry, files, history,
                    out, exitCode, cause >>

---------------------------------------------------------------------------
(* filter_entries *)

\* FilterEntry with "if" for "elif": the bad branch no longer excludes the good
FilterEntry_if(aE, sNSRLEntry, aNSRLLine, aTools, sGood, sBad) ==
    LET aG == IF ~in_array(Item(aNSRLLine, 5), aTools) /\ Truthy(sGood)
              THEN [aE EXCEPT !.good = Append(@, sNSRLEntry)]
              ELSE aE
    IN  IF Truthy(sBad)
        THEN [aG EXCEPT !.bad = Append(@, sNSRLEntry)]
        ELSE aG

\* FilterEntry with "else" for "elif sKnownBadOutputFile"
FilterEntry_else(aE, sNSRLEntry, aNSRLLine, aTools, sGood, sBad) ==
    IF ~in_array(Item(aNSRLLine, 5), aTools) /\ Truthy(sGood)
    THEN [aE EXCEPT !.good = Append(@, sNSRLEntry)]
    ELSE [aE EXCEPT !.bad = Append(@, sNSRLEntry)]

\* the body of "for sNSRLEntry in oNSRLFile", for a row of 6 fields or more
FilterEntry(aE, sNSRLEntry, aNSRLLine, aTools, sGood, sBad) ==
    IF ~in_array(Item(aNSRLLine, 5), aTools) /\ Truthy(sGood)
    THEN [aE EXCEPT !.good = Append(@, sNSRLEntry)]
    ELSE IF Truthy(sBad)
         THEN [aE EXCEPT !.bad = Append(@, sNSRLEntry)]
         ELSE aE

FilterOpen ==
    /\ pc = "filter" /\ ~LoopDone(iFile, aFiles) /\ oFile = "closed"
    /\ oFile' = "open"
    /\ nsrlOpens' = nsrlOpens + 1
    /\ UNCHANGED << pc, nOpts, locals, aFiles, iFile, data, files, prodSeen,
                    nProdClosed, rowsRead, out, exitCode, cause >>

FilterOpenFail ==
    /\ pc = "filter" /\ ~LoopDone(iFile, aFiles) /\ oFile = "closed"
    /\ nsrlOpens' = nsrlOpens + 1
    /\ cause' = "hash-set unreadable"
    /\ raise_error("Could not read NSRL Signature file")
    /\ UNCHANGED << nOpts, locals, loopvars, data, files, prodSeen,
                    nProdClosed, rowsRead >>

FilterReadLine ==
    /\ pc = "filter" /\ oFile = "open"
    /\ Len(rowsRead) < MaxRows
    /\ \E sNSRLEntry \in NSRLLines :
          LET aNSRLLine == Split(sNSRLEntry) IN
          /\ rowsRead' = Append(rowsRead, << iFile, sNSRLEntry >>)
          /\ IF ~HasIndex(aNSRLLine, 5)
             THEN /\ cause' = "malformed row"
                  /\ Uncaught("IndexError")
                  /\ UNCHANGED << oFile, aEntries >>
             ELSE /\ aEntries' = FilterEntry(aEntries, sNSRLEntry, aNSRLLine,
                                             aHackerTools, sKnownGoodOutputFile,
                                             sKnownBadOutputFile)
                  /\ oFile' = IF Terminated(sNSRLEntry) THEN "open" ELSE "last"
                  /\ UNCHANGED << pc, out, exitCode, cause >>
    /\ UNCHANGED << nOpts, locals, aFiles, iFile, aHackerTools, iEntry, files,
                    prodSeen, nProdClosed, nsrlOpens >>

FilterReadError ==
    /\ pc = "filter" /\ oFile = "open"
    /\ cause' = "hash-set unreadable"
    /\ raise_error("Could not read NSRL Signature file")
    /\ UNCHANGED << nOpts, locals, loopvars, data, files, history >>

FilterClose ==
    /\ pc = "filter" /\ oFile \in { "open", "last" }
    /\ oFile' = "closed"
    /\ iFile' = iFile + 1
    /\ UNCHANGED << pc, nOpts, locals, aFiles, data, files, history, out,
                    exitCode, cause >>

\* "return aEntries", then main enters write_output
FilterReturn ==
    /\ pc = "filter" /\ LoopDone(iFile, aFiles) /\ oFile = "closed"
    /\ pc' = "write_good"
    /\ iEntry' = 0
    /\ UNCHANGED << nOpts, locals, loopvars, aHackerTools, aEntries, files,
                    history, out, exitCode, cause >>

---------------------------------------------------------------------------
(* write_output: sKind is "good" or "bad", sPath its output file, sNext the
   position after its block *)

PathOf(sKind) ==
    IF sKind = "good" THEN sKnownGoodOutputFile ELSE sKnownBadOutputFile

\* "if sKnown...OutputFile:" is false
WriteSkip(sKind, sNext) ==
    /\ pc = "write_" \o sKind /\ ~Truthy(PathOf(sKind))
    /\ pc' = sNext
    /\ UNCHANGED << nOpts, locals, loopvars, data, files, history, out,
                    exitCode, cause >>

\* open(path, 'w') creates or truncates the file
WriteOpen(sKind) ==
    /\ pc = "write_" \o sKind /\ Truthy(PathOf(sKind)) /\ oFile = "closed"
    /\ oFile' = "open"
    /\ iEntry' = 0
    /\ disk' = [disk EXCEPT ![PathOf(sKind)] = << >>]
    /\ wlog' = Append(wlog, << "open", sKind, PathOf(sKind) >>)
    /\ UNCHANGED << pc, nOpts, locals, aFiles, iFile, aHackerTools, aEntries,
                    shown, history, out, exitCode, cause >>

\* WriteOpenFail with the IOError swallowed: write_output goes on
WriteOpenFail_pass(sKind) ==
    /\ pc = "write_" \o sKind /\ Truthy(PathOf(sKind)) /\ oFile = "closed"
    /\ wlog' = Append(wlog, << "fail", sKind, PathOf(sKind) >>)
    /\ pc' = IF sKind = "good" THEN "write_bad" ELSE "summary"
    /\ UNCHANGED << nOpts, locals, loopvars, data, disk, shown, history, out,
                    exitCode, cause >>

\* open(path, 'w') raises IOError
WriteOpenFail(sKind) ==
    /\ pc = "write_" \o sKind /\ Truthy(PathOf(sKind)) /\ oFile = "closed"
    /\ wlog' = Append(wlog, << "fail", sKind, PathOf(sKind) >>)
    /\ cause' = "output unopenable"
    /\ raise_error("Could not open known-" \o sKind \o " output file")
    /\ UNCHANGED << nOpts, locals, loopvars, data, disk, shown, history >>

\* WriteEntry writing sEntry.rstrip('\n') and a fresh '\n'
WriteEntry_rstrip(sKind) ==
    /\ pc = "write_" \o sKind /\ oFile = "open"
    /\ iEntry < Len(aEntries[sKind])
    /\ LET sEntry == aEntries[sKind][iEntry + 1]
           sBare == IF Terminated(sEntry) THEN SubSeq(sEntry, 1, Len(sEntry) - 1)
                    ELSE sEntry
       IN  disk' = [disk EXCEPT ![PathOf(sKind)] = @ \o sBare \o << LF >>]
    /\ iEntry' = iEntry + 1
    /\ UNCHANGED << pc, nOpts, locals, loopvars, aHackerTools, aEntries, wlog,
                    shown, history, out, exitCode, cause >>

\* one iteration of "for sEntry in aEntries[...]": write(sEntry)
WriteEntry(sKind) ==
    /\ pc = "write_" \o sKind /\ oFile = "open"
    /\ iEntry < Len(aEntries[sKind])
    /\ disk' = [disk EXCEPT ![PathOf(sKind)] = @ \o aEntries[sKind][iEntry + 1]]
    /\ iEntry' = iEntry + 1
    /\ UNCHANGED << pc, nOpts, locals, loopvars, aHackerTools, aEntries, wlog,
                    shown, history, out, exitCode, cause >>

\* write(sEntry) raises IOError
WriteEntryFail(sKind) ==
    /\ pc = "write_" \o sKind /\ oFile = "open"
    /\ iEntry < Len(aEntries[sKind])
    /\ cause' = "output write failed"
    /\ raise_error("Could not open known-" \o sKind \o " output file")
    /\ UNCHANGED << nOpts, locals, loopvars, data, files, history >>

WriteClose(sKind, sNext) ==
    /\ pc = "write_" \o sKind /\ oFile = "open"
    /\ iEntry = Len(aEntries[sKind])
    /\ oFile' = "closed"
    /\ wlog' = Append(wlog, << "close", sKind, PathOf(sKind) >>)
    /\ pc' = sNext
    /\ UNCHANGED << nOpts, locals, aFiles, iFile, data, disk, shown, history,
                    out, exitCode, cause >>

WriteGoodSkip == WriteSkip("good", "write_bad")
WriteGoodOpen == WriteOpen("good")
WriteGoodOpenFail == WriteOpenFail("good")
WriteGoodEntry == WriteEntry("good")
WriteGoodEntryFail == WriteEntryFail("good")
WriteGoodClose == WriteClose("good", "write_bad")
WriteBadSkip == WriteSkip("bad", "summary")
WriteBadOpen == WriteOpen("bad")
WriteBadOpenFail == WriteOpenFail("bad")
WriteBadEntry == WriteEntry("bad")
WriteBadEntryFail == WriteEntryFail("bad")
WriteBadClose == WriteClose("bad", "summary")

---------------------------------------------------------------------------
(* show_summary and the end of main *)

Header == << "stdout", "tool_header" >>

\* "if bShowSummary:" is false
SummarySkip ==
    /\ pc = "summary" /\ ~bShowSummary
    /\ pc' = "return"
    /\ UNCHANGED << nOpts, locals, loopvars, data, files, history, out,
                    exitCode, cause >>

\* (1.0 * n / iTotalLength) * 100 as the fraction n * 100 / iTotalLength;
\* the division raises ZeroDivisionError when iTotalLength is 0
ShowSummary ==
    /\ pc = "summary" /\ bShowSummary
    /\ LET iKnownGoodLength == Len(aEntries.good)
           iKnownBadLength == Len(aEntries.bad)
           iTotalLength == iKnownGoodLength + iKnownBadLength
       IN  IF iTotalLength = 0
           THEN /\ out' = out \o << Header, << "stderr", "Traceback",
                                               "ZeroDivisionError" >> >>
                /\ exitCode' = 1
                /\ pc' = "exit"
                /\ cause' = "zero division"
                /\ UNCHANGED shown
           ELSE /\ out' = out \o << Header, << "stdout", "summary" >> >>
                /\ shown' = << iKnownGoodLength,
                               << iKnownGoodLength * 100, iTotalLength >>,
                               iKnownBadLength,
                               << iKnownBadLength * 100, iTotalLength >> >>
                /\ pc' = "return"
                /\ UNCHANGED << exitCode, cause >>
    /\ UNCHANGED << nOpts, locals, loopvars, data, disk, wlog, history >>

\* "return 0" and sys.exit(main())
MainReturn ==
    /\ pc = "return"
    /\ exitCode' = 0
    /\ pc' = "exit"
    /\ cause' = "completed"
    /\ UNCHANGED << nOpts, locals, loopvars, data, files, history, out >>

---------------------------------------------------------------------------

Next ==
    \/ GetoptError \/ GetoptOK
    \/ OptHelp \/ OptNSRL \/ OptProd \/ OptGood \/ OptBad \/ OptSummary
    \/ OptsDone
    \/ CheckNSRLFile \/ CheckProdFile \/ CheckOutputs
    \/ IndexOpen \/ IndexOpenFail \/ IndexReadLine \/ IndexReadError
    \/ IndexClose \/ IndexReturn
    \/ FilterOpen \/ FilterOpenFail \/ FilterReadLine \/ FilterReadError
    \/ FilterClose \/ FilterReturn
    \/ WriteGoodSkip \/ WriteGoodOpen \/ WriteGoodOpenFail \/ WriteGoodEntry
    \/ WriteGoodEntryFail \/ WriteGoodClose
    \/ WriteBadSkip \/ WriteBadOpen \/ WriteBadOpenFail \/ WriteBadEntry
    \/ WriteBadEntryFail \/ WriteBadClose
    \/ SummarySkip \/ ShowSummary \/ MainReturn

Spec == Init /\ [][Next]_vars

---------------------------------------------------------------------------
(* Vocabulary of the properties *)

Range(q) == { q[i] : i \in 1..Len(q) }

RECURSIVE Flatten(_)
\* the characters of a list of strings, in order
Flatten(ss) ==
    IF ss = << >> THEN << >> ELSE Head(ss) \o Flatten(Tail(ss))

\* how often x occurs in the list q
Count(q, x) == Cardinality({ i \in 1..Len(q) : q[i] = x })

\* the text of the hash-set lines read, in the order read
RowTexts == [i \in 1..Len(rowsRead) |-> rowsRead[i][2]]

\* sub occurs in s
Occurs(sub, s) ==
    \E i \in 1..Len(s) :
        i + Len(sub) - 1 <= Len(s) /\ SubSeq(s, i, i + Len(sub) - 1) = sub

\* the positions of the commas of a row, the number of its fields, and its
\* field n (counted from 0): the text between comma n and comma n + 1
Commas(sRow) == { i \in 1..Len(sRow) : sRow[i] = COMMA }
NFields(sRow) == Cardinality(Commas(sRow)) + 1
FieldAt(sRow, n) ==
    LET cs == Commas(sRow)
        Before(i) == Cardinality({ j \in cs : j < i })
        lo == IF n = 0 THEN 0 ELSE CHOOSE i \in cs : Before(i) = n - 1
        hi == IF Cardinality(cs) <= n THEN Len(sRow) + 1
              ELSE CHOOSE i \in cs : Before(i) = n
    IN  SubSeq(sRow, lo + 1, hi - 1)

\* the row has a field 5, and its value
WellFormed(sRow) == NFields(sRow) >= 6
Field5(sRow) == FieldAt(sRow, 5)

\* the row's product is in the flagged set
Flagged(sRow) == WellFormed(sRow) /\ Field5(sRow) \in Range(aHackerTools)

GoodRequested == sKnownGoodOutputFile # None /\ sKnownGoodOutputFile # << >>
BadRequested == sKnownBadOutputFile # None /\ sKnownBadOutputFile # << >>

\* filter_entries has returned
FilterReturned ==
    \/ pc \in { "write_good", "write_bad", "summary", "return" }
    \/ pc = "exit" /\ cause \in { "output unopenable", "output write failed",
                                  "zero division", "completed" }

\* the events of wlog about the bad output file
BadEvents == { i \in 1..Len(wlog) : wlog[i][2] = "bad" }

Untouched == wlog = << >> /\ disk = [p \in OutPaths |-> Stale]

---------------------------------------------------------------------------
(* C1: a hash-set row is placed in the bad sequence if and only if its
   field 5 is in the flagged set and the bad output is requested, whatever
   outputs are requested: the bad sequence is the rows read whose field 5 is
   flagged (none when the bad output is not requested), and an unflagged row
   is never placed in it. *)
C1_BadIffFlagged ==
    LET Destined(sRow) == Flagged(sRow) /\ BadRequested
    IN  aEntries.bad = SelectSeq(RowTexts, Destined)

(* C2: once filter_entries has returned, every row read is in exactly one of
   good, bad, not-collected: no row is in both sequences or twice in one, a
   row is not collected only when the output of its destined bucket is not
   requested, and with both outputs requested the two counts add up to the
   number of rows read. *)
C2_Partition ==
    FilterReturned =>
        /\ \A t \in Range(RowTexts) \cup Range(aEntries.good)
                       \cup Range(aEntries.bad) :
              /\ Count(aEntries.good, t) = 0 \/ Count(aEntries.bad, t) = 0
              /\ Count(aEntries.good, t) + Count(aEntries.bad, t)
                     \in { 0, Count(RowTexts, t) }
              /\ Count(aEntries.good, t) + Count(aEntries.bad, t) = 0
                     => IF Flagged(t) THEN ~BadRequested ELSE ~GoodRequested
        /\ (GoodRequested /\ BadRequested
               => Len(aEntries.good) + Len(aEntries.bad) = Len(rowsRead))

\* both outputs requested, two rows read, one good and one bad
C2_Witness ==
    /\ pc = "return" /\ GoodRequested /\ BadRequested
    /\ Len(rowsRead) = 2
    /\ Len(aEntries.good) > 0 /\ Len(aEntries.bad) > 0

(* C3: when only the good output is requested, the bad sequence is empty in
   every state, and no bad output file is ever opened, created or truncated:
   no file but the good one changes. *)
C3_GoodOnly ==
    (GoodRequested /\ ~BadRequested) =>
        /\ aEntries.bad = << >>
        /\ BadEvents = {}
        /\ \A p \in OutPaths \ { sKnownGoodOutputFile } : disk[p] = Stale

\* a good-only run that read two flagged rows and completed
C3_Witness ==
    /\ GoodRequested /\ ~BadRequested
    /\ pc = "exit" /\ exitCode = 0
    /\ Cardinality({ i \in 1..Len(RowTexts) : Flagged(RowTexts[i]) }) >= 2

\* the list q is the rows read that occur in it, in the order read
InInputOrder(q) ==
    LET Selected(sRow) == sRow \in Range(q)
    IN  q = SelectSeq(RowTexts, Selected)

\* the rows were read file by file, in the order of the file arguments
FileByFile ==
    \A i, j \in 1..Len(rowsRead) : i < j => rowsRead[i][1] <= rowsRead[j][1]

(* C4 as stated: after a successful run each requested output file holds
   exactly the lines collected for it, unmodified and in input order. *)
C4_OutputsVerbatim ==
    (pc = "exit" /\ cause = "completed") =>
        /\ FileByFile
        /\ GoodRequested =>
              /\ InInputOrder(aEntries.good)
              /\ disk[sKnownGoodOutputFile] = Flatten(aEntries.good)
        /\ BadRequested =>
              /\ InInputOrder(aEntries.bad)
              /\ disk[sKnownBadOutputFile] = Flatten(aEntries.bad)

(* C4 amended: after a successful run each requested output file holds
   exactly the lines collected for it, unmodified and in input order,
   provided the good and the bad destination are not the same file; when
   they are, the file holds the bad lines only. *)
C4_OutputsVerbatimDistinct ==
    (pc = "exit" /\ cause = "completed") =>
        /\ FileByFile
        /\ GoodRequested =>
              /\ InInputOrder(aEntries.good)
              /\ (BadRequested /\ sKnownBadOutputFile = sKnownGoodOutputFile)
                 \/ disk[sKnownGoodOutputFile] = Flatten(aEntries.good)
        /\ BadRequested =>
              /\ InInputOrder(aEntries.bad)
              /\ disk[sKnownBadOutputFile] = Flatten(aEntries.bad)

\* a successful run with two output files and a good line from each of two
\* hash-set files
C4_Witness ==
    /\ pc = "exit" /\ cause = "completed"
    /\ GoodRequested /\ BadRequested
    /\ sKnownBadOutputFile # sKnownGoodOutputFile
    /\ Len(aEntries.good) = 2
    /\ \E i, j \in 1..Len(rowsRead) : rowsRead[i][1] # rowsRead[j][1]

(* C5: a run that ends in failure, other than by a failure to open or write
   an output destination, has created, truncated or written no output
   file. *)
C5_AllOrNothing ==
    (pc = "exit" /\ exitCode # 0
        /\ cause \notin { "output unopenable", "output write failed" })
        => Untouched

(* C6: show_summary does not crash: a run that entered show_summary, also
   with no entry collected, goes on to end with status 0. *)
C6_SummaryNoCrash ==
    (pc = "exit" /\ Header \in Range(out)) => exitCode = 0

(* C7: a run ended by a configuration error or an I/O error exits with
   status 2, after the error message on stderr and the usage text; a run that
   completes all phases and a run ended by -h exit with status 0. *)
C7_ExitCodes ==
    pc = "exit" =>
        /\ cause \in { "bad flag", "missing -n", "missing -p", "no output",
                       "input not found", "catalog unreadable",
                       "hash-set unreadable", "output unopenable",
                       "output write failed" }
              => /\ exitCode = 2
                 /\ Len(out) >= 2
                 /\ out[Len(out)] = Usage
                 /\ out[Len(out) - 1][1] = "stderr"
        /\ cause \in { "completed", "help" } => exitCode = 0

\* a run ended by an output file that cannot be opened
C7_Witness ==
    pc = "exit" /\ cause = "output unopenable" /\ exitCode = 2

\* the product identifier a catalog row asserts to be a hacker tool, if any
Asserted(sRow) ==
    IF NFields(sRow) >= 7 /\ Occurs(MARKER, FieldAt(sRow, 6))
    THEN { FieldAt(sRow, 0) } ELSE {}

(* C8: the flagged set holds each product identifier at most once, however
   many catalog rows assert it, and only identifiers that are field 0 of a
   catalog row read whose field 6 contains the marker. *)
C8_FlaggedSet ==
    /\ \A i, j \in 1..Len(aHackerTools) :
          aHackerTools[i] = aHackerTools[j] => i = j
    /\ Range(aHackerTools) \subseteq UNION { Asserted(sRow) : sRow \in prodSeen }

\* two catalog rows asserted product 1 and the index was returned
C8_Witness ==
    /\ pc = "filter"
    /\ ProdHacker1 \in prodSeen /\ ProdHacker1b \in prodSeen
    /\ aHackerTools = << << "1" >> >>

(* C9: when the first hash-set file is opened every catalog file has been
   read to its end, and the flagged set does not change from then on; a run
   ended by a catalog read failure has opened no hash-set file. *)
C9_PhaseOrder ==
    /\ [](nsrlOpens > 0 \/ rowsRead # << >>
             => nProdClosed = Len(Split(sProdFile)))
    /\ [](cause = "catalog unreadable" => nsrlOpens = 0 /\ rowsRead = << >>)
    /\ [][nsrlOpens > 0 \/ pc \notin { "getopt", "options", "check_nsrl",
                                       "check_prod", "check_out", "index" }
             => aHackerTools' = aHackerTools]_vars

\* hash-set rows are read after two catalog files gave a flagged set
C9_Witness ==
    /\ rowsRead # << >>
    /\ Len(Split(sProdFile)) = 2
    /\ Len(aHackerTools) = 2

(* C10: with both outputs requested, the good file is opened, completely
   written and closed before the bad file is opened; when the good file
   cannot be opened the run exits with status 2 and no output file is
   touched; when the bad file cannot be opened the run exits with status 2
   and the good file holds the whole good sequence; either failure comes
   after filter_entries has read every hash-set file. *)
C10_WriteOrder ==
    (GoodRequested /\ BadRequested) =>
        /\ BadEvents # {} =>
              /\ Len(wlog) >= 3
              /\ wlog[1] = << "open", "good", sKnownGoodOutputFile >>
              /\ wlog[2] = << "close", "good", sKnownGoodOutputFile >>
        /\ (pc = "write_bad" /\ BadEvents = {})
              => disk[sKnownGoodOutputFile] = Flatten(aEntries.good)
        /\ (pc = "exit" /\ cause = "output unopenable")
              => /\ exitCode = 2
                 /\ aFiles = Split(sNSRLFile)
                 /\ iFile = Len(aFiles) + 1
                 /\ nsrlOpens = Len(aFiles)
                 /\ IF wlog[Len(wlog)][2] = "good"
                    THEN BadEvents = {} /\ disk = [p \in OutPaths |-> Stale]
                    ELSE disk[sKnownGoodOutputFile] = Flatten(aEntries.good)

\* the bad file cannot be opened after two good lines went to the good file
C10_Witness ==
    /\ GoodRequested /\ BadRequested
    /\ sKnownBadOutputFile # sKnownGoodOutputFile
    /\ pc = "exit" /\ cause = "output unopenable"
    /\ wlog[Len(wlog)] = << "fail", "bad", sKnownBadOutputFile >>
    /\ Len(aEntries.good) = 2

===========================================================================
